---- MODULE Spec2Model ----
(***************************************************************************)
(* The InfoHubv3 storefront widget (react/InfoHubv3.tsx, the component     *)
(* with the showInfoHub opt-out): a message-triggered pipeline that        *)
(* matches topic keywords against the current URL, ranks the matched       *)
(* topics, assembles the posts (pinned posts first), filters inactive      *)
(* posts, removes duplicate titles, truncates to the device cap and gates  *)
(* the render.                                                             *)
(*                                                                         *)
(* Strings the code inspects character by character (keywords, pathname,   *)
(* query) are sequences of one-character strings.  Array indices are       *)
(* 1-based here (0-based in the source).  Times are abstract days.         *)
(***************************************************************************)
EXTENDS Integers, Sequences, FiniteSets, TLC

\* ------------------------------------------------------------------ bounds
\* The clock read by Date.now() ranges over 1..MaxNow.
MaxNow == 2
\* Largest number of filler posts in a generated post list.
MaxFill == 11
\* The number of "message" listeners up to which leaked listeners are followed.
MaxListeners == 2

\* --------------------------------------------------------- program constants
maximumDesktopPosts == 10
maximumMobilePosts == 6
\* window.innerWidth >= 1026 is "desktop".
desktopMinWidth == 1026
\* e.data.eventName that triggers a run.
runEventName == "ebs-infohub-run"

\* ------------------------------------------------------------ string helpers
\* String.prototype.toLowerCase on one character of the model's alphabet.
toLowerCaseChar(c) ==
    CASE c = "A" -> "a"
      [] c = "B" -> "b"
      [] c = "C" -> "c"
      [] c = "I" -> "i"
      [] c = "H" -> "h"
      [] OTHER -> c

\* String.prototype.toLowerCase.
toLowerCase(s) == [i \in 1..Len(s) |-> toLowerCaseChar(s[i])]

\* String.prototype.includes: k occurs in s as a contiguous substring.
includes(s, k) ==
    \E i \in 0..(Len(s) - Len(k)) : SubSeq(s, i + 1, i + Len(k)) = k

\* Concatenation of a sequence of sequences.
RECURSIVE Flatten(_)
Flatten(ss) == IF ss = <<>> THEN <<>> ELSE Head(ss) \o Flatten(Tail(ss))

\* ------------------------------------------------------------------ location
\* A location is [pathname, search]; search is the parsed query, a sequence
\* of [key, value] parameters.  searchString is window.location.search.
RECURSIVE joinParams(_)
joinParams(ps) ==
    IF ps = <<>> THEN <<>>
    ELSE Head(ps).key \o <<"=">> \o Head(ps).value
         \o (IF Tail(ps) = <<>> THEN <<>> ELSE <<"&">> \o joinParams(Tail(ps)))

searchString(loc) ==
    IF loc.search = <<>> THEN <<>> ELSE <<"?">> \o joinParams(loc.search)

\* The value URLSearchParams.get returns when the key is absent.
null == <<"null">>

\* URLSearchParams.get(name): the value of the first parameter named name.
RECURSIVE paramsGet(_, _)
paramsGet(ps, name) ==
    IF ps = <<>> THEN null
    ELSE IF Head(ps).key = name THEN Head(ps).value
    ELSE paramsGet(Tail(ps), name)

\* A showInfoHub without the test of canUseDOM.
showInfoHubWithoutDOMTest(dom, loc) ==
    LET ih == paramsGet(loc.search, <<"i", "h">>)
    IN  IF ih = <<"0">> THEN FALSE ELSE TRUE

\* showInfoHub: false without a DOM, false when the query has ih=0.
showInfoHub(dom, loc) ==
    IF ~dom THEN FALSE
    ELSE LET ih == paramsGet(loc.search, <<"i", "h">>)
         IN  IF ih = <<"0">> THEN FALSE ELSE TRUE

\* --------------------------------------------------------------------- dates
\* Date.parse on the model's date strings: "dayN" is day N, "epoch" is the
\* instant 0, anything else (absent, malformed) is NaN.
NaN == [valid |-> FALSE, ms |-> 0]
DateParse(s) ==
    CASE s = "epoch" -> [valid |-> TRUE, ms |-> 0]
      [] s = "day1" -> [valid |-> TRUE, ms |-> 1]
      [] s = "day2" -> [valid |-> TRUE, ms |-> 2]
      [] s = "day3" -> [valid |-> TRUE, ms |-> 3]
      [] OTHER -> NaN

\* JavaScript truthiness of a number: neither NaN nor 0.
truthy(d) == d.valid /\ d.ms # 0

\* The startDate of post parses to a valid instant after now.
StartsInFuture(post, now) ==
    DateParse(post.startDate).valid /\ DateParse(post.startDate).ms > now

\* ------------------------------------------------------------------ pipeline
\* buildKeywordList: one entry per keyword of every topic, lower-cased.
buildKeywordList(arts) ==
    Flatten([i \in 1..Len(arts) |->
        [k \in 1..Len(arts[i].keywords) |->
            [keyword |-> toLowerCase(arts[i].keywords[k]), topic |-> i]]])

\* [...new Set(xs)]: first occurrences, in insertion order.
RECURSIVE uniqueInOrder(_)
uniqueInOrder(xs) ==
    IF xs = <<>> THEN <<>>
    ELSE LET h == Head(xs)
         IN  <<h>> \o uniqueInOrder(SelectSeq(Tail(xs), LAMBDA y : y # h))

\* A matching against the whole href, host and protocol included.
topicBuilderOnHref(keywordList, loc) ==
    LET currentURL == toLowerCase(loc.protocol \o <<"/", "/">> \o loc.host
                                  \o loc.pathname \o searchString(loc))
        hits == [i \in 1..Len(keywordList) |->
                    IF includes(currentURL, keywordList[i].keyword)
                    THEN keywordList[i].topic ELSE -1]
    IN  SelectSeq(hits, LAMBDA t : t # -1)

\* searchCurrentURL, the matching: the topics with a keyword in the
\* lower-cased pathname + search, duplicates kept.
topicBuilder(keywordList, loc) ==
    LET currentURL == toLowerCase(loc.pathname \o searchString(loc))
        hits == [i \in 1..Len(keywordList) |->
                    IF includes(currentURL, keywordList[i].keyword)
                    THEN keywordList[i].topic ELSE -1]
    IN  SelectSeq(hits, LAMBDA t : t # -1)

\* searchCurrentURL: device from the viewport width.
deviceOf(width) == IF width >= desktopMinWidth THEN "desktop" ELSE "mobile"

\* sortTopics: the comparator returns a boolean (coerced to 1 or 0, never
\* negative), which is not a consistent comparison function unless all
\* priorities are equal; the resulting order is implementation-defined.
\* "TimSort" (V8 since 7.0) never moves an element when no comparison is
\* negative; "MergeSort" (SpiderMonkey, older V8 insertion sort) swaps on a
\* positive result and yields the stable ascending order.
\* A comparison that also answers true for equal priorities.
comparisonFunctionNotStrict(a, b) == a.priority >= b.priority

comparisonFunction(a, b) == a.priority > b.priority

RECURSIVE insertSorted(_, _)
insertSorted(sorted, x) ==
    IF sorted = <<>> THEN <<x>>
    ELSE LET last == sorted[Len(sorted)]
         IN  IF comparisonFunction(last, x)
             THEN Append(insertSorted(SubSeq(sorted, 1, Len(sorted) - 1), x), last)
             ELSE Append(sorted, x)

RECURSIVE insertionSort(_)
insertionSort(xs) ==
    IF xs = <<>> THEN <<>>
    ELSE insertSorted(insertionSort(SubSeq(xs, 1, Len(xs) - 1)), xs[Len(xs)])

sortTopics(arts, finalTopics, eng) ==
    LET unsortedTopics == [i \in 1..Len(finalTopics) |->
            [topic |-> finalTopics[i], priority |-> arts[finalTopics[i]].topicType]]
        sortedTopicsWithPriority ==
            IF eng = "TimSort" THEN unsortedTopics ELSE insertionSort(unsortedTopics)
    IN  [i \in 1..Len(sortedTopicsWithPriority) |-> sortedTopicsWithPriority[i].topic]

\* A collection of the posts of every configured topic, matched or not.
postBuilderOfAllTopics(arts, sortedFinalTopics) ==
    Flatten([i \in 1..Len(arts) |-> arts[i].posts])

\* buildPosts: the pinned list followed by the posts of the sorted topics.
postBuilderOf(arts, sortedFinalTopics) ==
    Flatten([i \in 1..Len(sortedFinalTopics) |-> arts[sortedFinalTopics[i]].posts])

priorityWithArticles(arts, prio, sortedFinalTopics) ==
    prio \o postBuilderOf(arts, sortedFinalTopics)

\* buildPosts: activePriorityPosts.current, the pinned posts whose active
\* flag is set.
countActivePriority(prio) ==
    Cardinality({i \in 1..Len(prio) : prio[i].active})

\* A filter that also holds back a post whose startDate is the evaluation
\* time itself.
withInactiveAtStart(post, now) ==
    LET startDate == DateParse(post.startDate)
    IN  IF truthy(startDate)
        THEN [post EXCEPT !.active = IF startDate.ms >= now THEN FALSE ELSE TRUE]
        ELSE post

\* removeInactivePosts, the map: a post with a truthy parsed startDate has
\* its active flag replaced by "startDate is not after now".
withInactive(post, now) ==
    LET startDate == DateParse(post.startDate)
    IN  IF truthy(startDate)
        THEN [post EXCEPT !.active = IF startDate.ms > now THEN FALSE ELSE TRUE]
        ELSE post

\* removeInactivePosts: map, then keep the posts whose active flag is set.
removeInactivePosts(postList, now) ==
    SelectSeq([i \in 1..Len(postList) |-> withInactive(postList[i], now)],
              LAMBDA p : p.active)

\* A set that appends an entry whether or not the key is present.
mapSetAppending(entries, key, value) ==
    Append(entries, [key |-> key, value |-> value])

\* Map.prototype.set on an insertion-ordered list of entries: an existing
\* key keeps its place and takes the new value; a new key is appended.
mapSet(entries, key, value) ==
    IF \E i \in 1..Len(entries) : entries[i].key = key
    THEN [i \in 1..Len(entries) |->
             IF entries[i].key = key THEN [key |-> key, value |-> value]
             ELSE entries[i]]
    ELSE Append(entries, [key |-> key, value |-> value])

RECURSIVE postMapOf(_, _)
postMapOf(entries, activePosts) ==
    IF activePosts = <<>> THEN entries
    ELSE postMapOf(mapSet(entries, Head(activePosts).editorItemTitle, Head(activePosts)),
                   Tail(activePosts))

\* A deduplication that removes, for each post, only the first later post
\* of the same title.
RECURSIVE removeDuplicatePostsOnce(_)
removeDuplicatePostsOnce(activePosts) ==
    IF activePosts = <<>> THEN <<>>
    ELSE LET parentPost == Head(activePosts)
             rest == Tail(activePosts)
             matches == {i \in 1..Len(rest) :
                            rest[i].editorItemTitle = parentPost.editorItemTitle}
             first == CHOOSE i \in matches : \A j \in matches : i <= j
             spliced == IF matches = {} THEN rest
                        ELSE [i \in 1..(Len(rest) - 1) |->
                                 IF i < first THEN rest[i] ELSE rest[i + 1]]
         IN  <<parentPost>> \o removeDuplicatePostsOnce(spliced)

\* removeDuplicatePosts: the values of the title-keyed Map, in key order.
removeDuplicatePosts(activePosts) ==
    LET postMap == postMapOf(<<>>, activePosts)
    IN  [i \in 1..Len(postMap) |-> postMap[i].value]

\* buildRender: the array cut to the cap of the recorded device.
buildRender(uniquePostArray, dev) ==
    LET numberOfPosts == Len(uniquePostArray)
        cap == IF dev = "desktop" THEN maximumDesktopPosts ELSE maximumMobilePosts
    IN  IF numberOfPosts > cap THEN SubSeq(uniquePostArray, 1, cap)
        ELSE uniquePostArray

\* The component's return value: the posts shown, <<>> for an empty fragment.
renderGate(isLoading, postList, activeCount) ==
    IF isLoading THEN <<>>
    ELSE IF Len(postList) = 0 THEN <<>>
    ELSE IF Len(postList) = activeCount THEN <<>>
    ELSE postList

\* One pass of the pipeline from buildKeywordList to buildRender, with the
\* values it computes on the way.  searched is FALSE when searchCurrentURL
\* returns for want of a DOM; matched is FALSE on its escape hatch (no keyword
\* found), where nothing after it is computed.
pipeline(dom, arts, prio, eng, loc, width, now) ==
    LET keywordList == buildKeywordList(arts)
        found == topicBuilder(keywordList, loc)
        topics == uniqueInOrder(found)
        dev == deviceOf(width)
        sorted == sortTopics(arts, topics, eng)
        candidates == priorityWithArticles(arts, prio, sorted)
        activePosts == removeInactivePosts(candidates, now)
        unique == removeDuplicatePosts(activePosts)
    IN  IF ~dom
        THEN [searched |-> FALSE, matched |-> FALSE]
        ELSE IF Len(found) = 0
        THEN [searched |-> TRUE, matched |-> FALSE]
        ELSE [searched |-> TRUE,
              matched |-> TRUE,
              finalTopics |-> topics,
              device |-> dev,
              sortedFinalTopics |-> sorted,
              activePriorityPosts |-> countActivePriority(prio),
              priorityWithArticles |-> candidates,
              activePosts |-> activePosts,
              uniquePosts |-> unique,
              posts |-> buildRender(unique, dev)]

\* ------------------------------------------------------------- configuration
\* A post of list number list (0 is the pinned list, k > 0 is topic k) at
\* position pos; url and image identify the configured entry.
Post(title, list, pos, active, startDate) ==
    [editorItemTitle |-> title,
     url |-> <<"url", list, pos>>,
     image |-> <<"image", list, pos>>,
     active |-> active,
     startDate |-> startDate]

Plain(title, list, pos) == Post(title, list, pos, TRUE, "")

Topic(topicType, keywords, postList) ==
    [topicType |-> topicType, keywords |-> keywords, posts |-> postList]

\* Keywords of the first and of the second configured topic.
Keywords1 == << <<"a", "b">> >>
Keywords2 == << <<"B", "a">>, <<"c">> >>
\* Keywords of a third configured topic.
Keywords3 == << <<"b">> >>

\* startDate strings: absent, malformed, the epoch, day 1, day 2.
StartDates == {"", "garbage", "epoch", "day1", "day2"}
\* topicType values of the two topics (of the enumeration 0..5): in
\* configuration order, against it, and equal.
TopicTypePairs == {<<0, 2>>, <<2, 0>>, <<2, 2>>}

\* n filler posts with distinct titles, placed after the first `from` entries
\* of list number list.
Fill(prefix, list, from, n) ==
    [i \in 1..n |-> Plain(prefix \o ToString(i), list, from + i)]

\* Configurations that vary the active flag and the startDate of one pinned
\* post and of one topic post.
ActivationConfig(prio, topicPosts) ==
    [priority |-> prio,
     articles |-> << Topic(0, Keywords1, topicPosts),
                     Topic(2, Keywords2, <<Plain("U", 2, 1)>>) >>]

ActivationConfigs ==
    { ActivationConfig(<<Post("P", 0, 1, pa, pd)>>, <<Post("T", 1, 1, a, "")>>) :
        pa \in BOOLEAN, pd \in StartDates, a \in BOOLEAN }
    \cup
    { ActivationConfig(prio, <<Post("T", 1, 1, a, d)>>) :
        prio \in {<<>>, <<Plain("P", 0, 1)>>}, a \in BOOLEAN, d \in StartDates }

\* Configurations that vary titles (with collisions), list order and the
\* topic types of two topics; every post is active and undated.
TitleLists(titles, list) ==
    { [i \in 1..Len(ts) |-> Plain(ts[i], list, i)] : ts \in titles }

TitleConfigs ==
    { [priority |-> prio,
       articles |-> << Topic(tt[1], Keywords1, p1), Topic(tt[2], Keywords2, p2) >>] :
        prio \in TitleLists({<<>>, <<"X">>, <<"X", "Y">>, <<"Y", "X">>, <<"X", "X">>}, 0),
        p1 \in TitleLists({<<"X">>, <<"Z", "X">>}, 1),
        p2 \in TitleLists({<<"X">>, <<"W", "X">>}, 2),
        tt \in TopicTypePairs }

\* Configurations long enough to be truncated: n pinned fillers (after an
\* optional pinned "X") and one topic with "X" (active or not) and m fillers.
FillConfig(head, n, organic, m) ==
    [priority |-> (IF head THEN <<Plain("X", 0, 1)>> ELSE <<>>)
                  \o Fill("F", 0, IF head THEN 1 ELSE 0, n),
     articles |-> << Topic(0, Keywords1,
                           <<Post("X", 1, 1, organic, "")>> \o Fill("G", 1, 1, m)) >>]

FillConfigs ==
    { FillConfig(head, n, organic, 0) :
        head \in BOOLEAN, n \in (maximumMobilePosts - 2)..MaxFill, organic \in BOOLEAN }
    \cup { FillConfig(head, n, TRUE, MaxFill) : head \in BOOLEAN, n \in 0..1 }

\* Configurations of three topics, two of them of the same topicType, one
\* post each.
TopicTypeTriples == {<<2, 0, 2>>, <<2, 2, 0>>, <<0, 2, 0>>}

TieConfigs ==
    { [priority |-> <<>>,
       articles |-> << Topic(tt[1], Keywords1, <<Plain("T", 1, 1)>>),
                       Topic(tt[2], Keywords2, <<Plain("U", 2, 1)>>),
                       Topic(tt[3], Keywords3, <<Plain("V", 3, 1)>>) >>] :
        tt \in TopicTypeTriples }

\* The configuration of the saddle / gravel scenario: two topics of one
\* keyword and one post each, no pinned post.
saddle == <<"s", "a", "d", "d", "l", "e">>
gravel == <<"g", "r", "a", "v", "e", "l">>

ScenarioConfig ==
    [priority |-> <<>>,
     articles |-> << Topic(0, <<saddle>>, <<Plain("B17", 1, 1)>>),
                     Topic(2, <<gravel>>, <<Plain("GravelGuide", 2, 1)>>) >>]

\* Configurations of two pinned posts (of one title; one of them scheduled;
\* one of them inactive) and a first topic whose only post is inactive.
PinnedPairs ==
    { <<Plain("X", 0, 1), Plain("X", 0, 2)>>,
      <<Post("P", 0, 1, TRUE, "day2"), Plain("Q", 0, 2)>>,
      <<Post("P", 0, 1, FALSE, ""), Plain("Q", 0, 2)>> }

PinnedPairConfigs ==
    { ActivationConfig(prio, <<Post("T", 1, 1, FALSE, "")>>) : prio \in PinnedPairs }

Configs ==
    ActivationConfigs \cup TitleConfigs \cup FillConfigs \cup TieConfigs
        \cup {ScenarioConfig} \cup PinnedPairConfigs

\* Array.prototype.sort implementations.
Engines == {"TimSort", "MergeSort"}

\* ---------------------------------------------------------------- environment
\* document.location: every page is served from one origin, whose host name
\* contains keywords of the configured topics.
Protocol == <<"h", "t", "t", "p", "s", ":">>
Host == <<"a", "b", ".", "c", "o", "m">>
Loc(pathname, search) ==
    [protocol |-> Protocol, host |-> Host, pathname |-> pathname, search |-> search]
Param(key, value) == [key |-> key, value |-> value]

OptOutQuery == << Param(<<"i", "h">>, <<"0">>) >>

Locations ==
    { Loc(<<"/", "a", "b">>, <<>>),
      Loc(<<"/", "A", "b", "a">>, <<>>),
      Loc(<<"/", "b">>, << Param(<<"q">>, <<"C">>) >>),
      Loc(<<"/", "b">>, <<>>),
      Loc(<<"/", "a", "b", "a">>, OptOutQuery) }

Widths == {desktopMinWidth - 1, desktopMinWidth}

\* The pages and the viewport of the saddle / gravel scenario: the product
\* page "/products/b17-saddle?x=1", a page that matches the other topic, a
\* page that matches none, and the product page with ih=0; 1200 pixels wide.
ScenarioLocation ==
    Loc(<<"/", "p", "r", "o", "d", "u", "c", "t", "s", "/",
          "b", "1", "7", "-", "s", "a", "d", "d", "l", "e">>,
        << Param(<<"x">>, <<"1">>) >>)

ScenarioLocations ==
    { ScenarioLocation,
      Loc(<<"/", "g", "r", "a", "v", "e", "l">>, <<>>),
      Loc(<<"/", "p", "r", "o", "d", "u", "c", "t", "s">>, <<>>),
      Loc(ScenarioLocation.pathname, OptOutQuery) }

ScenarioWidth == 1200

\* The pages and viewports a configuration is exercised with: those written
\* for its keywords.
LocationsOf(arts) ==
    IF arts = ScenarioConfig.articles THEN ScenarioLocations ELSE Locations
WidthsOf(arts) ==
    IF arts = ScenarioConfig.articles THEN {ScenarioWidth} ELSE Widths
Times == 1..MaxNow
EventNames == {runEventName, "other-event"}

\* --------------------------------------------------------------------- state
VARIABLES
    articles,            \* prop: the configured topics
    priority,            \* prop: the pinned posts
    canUseDOM,           \* vtex.render-runtime: a browser context exists
    engine,              \* the Array.prototype.sort implementation of the host
    mounted,             \* the component is in the tree
    hooks,               \* the last render went past showInfoHub and ran the hooks
    listening,           \* the effect's "message" listener is registered
    listeners,           \* the widget's "message" listeners on window, stale ones included
    pipelineRuns,        \* the pipeline runs the last message caused
    location,            \* document.location as read by the mount or the last run
    innerWidth,          \* window.innerWidth at the last run
    rightNow,            \* Date.now() at the last run
    loading,             \* useState(true)
    posts,               \* useState([])
    device,              \* useRef("mobile")
    activePriorityPosts, \* useRef(0)
    display,             \* the posts on screen; <<>> is the empty fragment
    lastEvent,           \* which operation ran last, and the branch it took
    ran,                 \* resetInfoHub has run since the mount
    wasRendered,         \* a panel was on screen before the last operation
    wasHeldBack,         \* the posts held back for their startDate before it
    repeated,            \* the last two operations were runs with the same inputs
    run                  \* the values computed by the last resetInfoHub

props == <<articles, priority, canUseDOM, engine>>
env == <<location, innerWidth, rightNow>>
hookState == <<loading, posts, device, activePriorityPosts>>
vars == <<articles, priority, canUseDOM, engine, mounted, hooks, listening,
          listeners, pipelineRuns,
          location, innerWidth, rightNow, loading, posts, device,
          activePriorityPosts, display, lastEvent, ran, wasRendered,
          wasHeldBack, repeated, run>>

NoRun == [searched |-> FALSE, matched |-> FALSE]
\* The value of location while the component has read none.
NoLocation == Loc(<<>>, <<>>)

\* The posts (by url) that the last run collected with their active flag set
\* and dropped because their startDate was after its evaluation time.
HeldBack ==
    IF run.matched
    THEN { run.priorityWithArticles[i].url :
             i \in { k \in 1..Len(run.priorityWithArticles) :
                       /\ run.priorityWithArticles[k].active
                       /\ StartsInFuture(run.priorityWithArticles[k], rightNow) } }
    ELSE {}

Init ==
    /\ \E c \in Configs : articles = c.articles /\ priority = c.priority
    /\ canUseDOM \in BOOLEAN
    /\ engine \in Engines
    /\ mounted = FALSE
    /\ hooks = FALSE
    /\ listening = FALSE
    /\ listeners = 0
    /\ pipelineRuns = 0
    /\ location = NoLocation
    /\ innerWidth = desktopMinWidth - 1
    /\ rightNow = 1
    /\ loading = TRUE
    /\ posts = <<>>
    /\ device = "mobile"
    /\ activePriorityPosts = 0
    /\ display = <<>>
    /\ lastEvent = "none"
    /\ ran = FALSE
    /\ wasRendered = FALSE
    /\ wasHeldBack = {}
    /\ repeated = FALSE
    /\ run = NoRun

\* Mount with the pipeline run at once for the mount-time location, as if the
\* effect called buildKeywordList().
MountAndRun(loc) ==
    /\ ~mounted
    /\ mounted' = TRUE
    /\ hooks' = showInfoHub(canUseDOM, loc)
    /\ listening' = (showInfoHub(canUseDOM, loc) /\ canUseDOM)
    /\ listening' => listeners < MaxListeners
    /\ listeners' = IF listening' THEN listeners + 1 ELSE listeners
    /\ pipelineRuns' = 0
    /\ location' = IF canUseDOM THEN loc ELSE NoLocation
    /\ \E r \in {pipeline(canUseDOM, articles, priority, engine, loc, innerWidth, rightNow)} :
          IF showInfoHub(canUseDOM, loc)
          THEN /\ loading' = FALSE
               /\ posts' = IF r.matched THEN r.posts ELSE <<>>
               /\ device' = IF r.matched THEN r.device ELSE "mobile"
               /\ activePriorityPosts' = IF r.matched THEN r.activePriorityPosts ELSE 0
               /\ display' = renderGate(loading', posts', activePriorityPosts')
          ELSE /\ loading' = TRUE
               /\ posts' = <<>>
               /\ device' = "mobile"
               /\ activePriorityPosts' = 0
               /\ display' = <<>>
    /\ lastEvent' = "mount"
    /\ ran' = FALSE
    /\ wasRendered' = (display # <<>>)
    /\ wasHeldBack' = HeldBack
    /\ repeated' = FALSE
    /\ run' = NoRun
    /\ UNCHANGED <<props, innerWidth, rightNow>>

\* The first render of the component at location loc.  Without a DOM, or with
\* ih=0, it returns the empty fragment before any hook.  Otherwise the state
\* and refs take their initial values, the render gate returns the empty
\* fragment (loading) and the effect registers the message listener.  No
\* pipeline function is called.
Mount(loc) ==
    /\ ~mounted
    /\ mounted' = TRUE
    /\ hooks' = showInfoHub(canUseDOM, loc)
    /\ listening' = (showInfoHub(canUseDOM, loc) /\ canUseDOM)
    /\ listening' => listeners < MaxListeners
    /\ listeners' = IF listening' THEN listeners + 1 ELSE listeners
    /\ pipelineRuns' = 0
    /\ location' = IF canUseDOM THEN loc ELSE NoLocation
    /\ loading' = TRUE
    /\ posts' = <<>>
    /\ device' = "mobile"
    /\ activePriorityPosts' = 0
    /\ display' = IF showInfoHub(canUseDOM, loc)
                  THEN renderGate(TRUE, <<>>, 0)
                  ELSE <<>>
    /\ lastEvent' = "mount"
    /\ ran' = FALSE
    /\ wasRendered' = (display # <<>>)
    /\ wasHeldBack' = HeldBack
    /\ repeated' = FALSE
    /\ run' = NoRun
    /\ UNCHANGED <<props, innerWidth, rightNow>>

\* resetInfoHub without its setPosts([]): the escape hatch leaves the posts of
\* the previous run in place.
resetInfoHubKeepingPosts(loc, width, now) ==
    \E r \in {pipeline(canUseDOM, articles, priority, engine, loc, width, now)} :
        /\ location' = loc
        /\ innerWidth' = width
        /\ rightNow' = now
        /\ loading' = IF r.searched THEN FALSE ELSE TRUE
        /\ posts' = IF r.matched THEN r.posts ELSE posts
        /\ device' = IF r.matched THEN r.device ELSE device
        /\ activePriorityPosts' =
               IF r.matched THEN r.activePriorityPosts ELSE activePriorityPosts
        /\ display' = renderGate(loading', posts', activePriorityPosts')
        /\ lastEvent' = "run"
        /\ ran' = TRUE
        /\ wasRendered' = (display # <<>>)
        /\ wasHeldBack' = HeldBack
        /\ repeated' = (lastEvent = "run" /\ <<loc, width, now>> = env)
        /\ run' = r
        /\ pipelineRuns' = listeners
        /\ UNCHANGED <<props, mounted, hooks, listening, listeners>>

\* resetInfoHub with the activation pass of the component's earlier version,
\* which writes "active = false" into the configured post itself: the run
\* alters the props it was given.
resetInfoHubMarkingProps(loc, width, now) ==
    LET markNotYetActive(postList) ==
            [i \in 1..Len(postList) |->
                IF truthy(DateParse(postList[i].startDate))
                   /\ StartsInFuture(postList[i], now)
                THEN [postList[i] EXCEPT !.active = FALSE]
                ELSE postList[i]]
    IN
    \E r \in {pipeline(canUseDOM, articles, priority, engine, loc, width, now)} :
        /\ location' = loc
        /\ innerWidth' = width
        /\ rightNow' = now
        /\ loading' = IF r.searched THEN FALSE ELSE TRUE
        /\ posts' = IF r.matched THEN r.posts ELSE <<>>
        /\ device' = IF r.matched THEN r.device ELSE device
        /\ activePriorityPosts' =
               IF r.matched THEN r.activePriorityPosts ELSE activePriorityPosts
        /\ display' = renderGate(loading', posts', activePriorityPosts')
        /\ lastEvent' = "run"
        /\ ran' = TRUE
        /\ wasRendered' = (display # <<>>)
        /\ wasHeldBack' = HeldBack
        /\ repeated' = (lastEvent = "run" /\ <<loc, width, now>> = env)
        /\ run' = r
        /\ priority' = IF r.matched THEN markNotYetActive(priority) ELSE priority
        /\ articles' =
               IF r.matched
               THEN [t \in 1..Len(articles) |->
                       IF \E k \in 1..Len(r.finalTopics) : r.finalTopics[k] = t
                       THEN [articles[t] EXCEPT !.posts = markNotYetActive(@)]
                       ELSE articles[t]]
               ELSE articles
        /\ pipelineRuns' = listeners
        /\ UNCHANGED <<canUseDOM, engine, mounted, hooks, listening, listeners>>

\* resetInfoHub whose buildRender reads the device recorded before the run
\* (as it would from a state variable instead of a ref).
resetInfoHubStaleDevice(loc, width, now) ==
    \E r \in {pipeline(canUseDOM, articles, priority, engine, loc, width, now)} :
        /\ location' = loc
        /\ innerWidth' = width
        /\ rightNow' = now
        /\ loading' = IF r.searched THEN FALSE ELSE TRUE
        /\ posts' = IF r.matched THEN buildRender(r.uniquePosts, device) ELSE <<>>
        /\ device' = IF r.matched THEN r.device ELSE device
        /\ activePriorityPosts' =
               IF r.matched THEN r.activePriorityPosts ELSE activePriorityPosts
        /\ display' = renderGate(loading', posts', activePriorityPosts')
        /\ lastEvent' = "run"
        /\ ran' = TRUE
        /\ wasRendered' = (display # <<>>)
        /\ wasHeldBack' = HeldBack
        /\ repeated' = (lastEvent = "run" /\ <<loc, width, now>> = env)
        /\ run' = r
        /\ pipelineRuns' = listeners
        /\ UNCHANGED <<props, mounted, hooks, listening, listeners>>

\* resetInfoHub whose escape hatch returns without setLoading(false).
resetInfoHubSilentEscape(loc, width, now) ==
    \E r \in {pipeline(canUseDOM, articles, priority, engine, loc, width, now)} :
        /\ location' = loc
        /\ innerWidth' = width
        /\ rightNow' = now
        /\ loading' = IF r.matched THEN FALSE ELSE TRUE
        /\ posts' = IF r.matched THEN r.posts ELSE <<>>
        /\ device' = IF r.matched THEN r.device ELSE device
        /\ activePriorityPosts' =
               IF r.matched THEN r.activePriorityPosts ELSE activePriorityPosts
        /\ display' = renderGate(loading', posts', activePriorityPosts')
        /\ lastEvent' = "run"
        /\ ran' = TRUE
        /\ wasRendered' = (display # <<>>)
        /\ wasHeldBack' = HeldBack
        /\ repeated' = (lastEvent = "run" /\ <<loc, width, now>> = env)
        /\ run' = r
        /\ pipelineRuns' = listeners
        /\ UNCHANGED <<props, mounted, hooks, listening, listeners>>

\* resetInfoHub at location loc, viewport width and time now: setLoading(true),
\* setPosts([]), then the pipeline; on the escape hatch only setLoading(false)
\* follows and the refs keep their values; without a DOM searchCurrentURL
\* returns at once.  The component re-renders with the resulting state.
resetInfoHub(loc, width, now) ==
    \E r \in {pipeline(canUseDOM, articles, priority, engine, loc, width, now)} :
        /\ location' = loc
        /\ innerWidth' = width
        /\ rightNow' = now
        /\ loading' = IF r.searched THEN FALSE ELSE TRUE
        /\ posts' = IF r.matched THEN r.posts ELSE <<>>
        /\ device' = IF r.matched THEN r.device ELSE device
        /\ activePriorityPosts' =
               IF r.matched THEN r.activePriorityPosts ELSE activePriorityPosts
        /\ display' = renderGate(loading', posts', activePriorityPosts')
        /\ lastEvent' = "run"
        /\ ran' = TRUE
        /\ wasRendered' = (display # <<>>)
        /\ wasHeldBack' = HeldBack
        /\ repeated' = (lastEvent = "run" /\ <<loc, width, now>> = env)
        /\ run' = r
        /\ pipelineRuns' = listeners
        /\ UNCHANGED <<props, mounted, hooks, listening, listeners>>

\* A message that no handler acts on: nobody listens ("unheard"), or every
\* handler returns at showInfoHub() ("optout") or at the event name
\* ("ignored").  Neither the width nor the clock is read (the inputs are
\* pinned to the recorded values, so that each such step is generated once).
returnsEarly(branch, width, now) ==
    /\ width = innerWidth /\ now = rightNow
    /\ lastEvent' = branch
    /\ pipelineRuns' = 0
    /\ wasRendered' = (display # <<>>)
    /\ wasHeldBack' = HeldBack
    /\ repeated' = FALSE
    /\ UNCHANGED <<props, env, hookState, mounted, hooks, listening, listeners,
                   display, ran, run>>

\* The component function runs its hooks on a fiber that holds no hook state
\* (React takes this for a first render): state and refs take their initial
\* values, the render gate returns the empty fragment, and the effect adds a
\* listener.
freshHooks(loc) ==
    /\ listeners < MaxListeners
    /\ hooks' = TRUE
    /\ listening' = TRUE
    /\ listeners' = listeners + 1
    /\ location' = loc
    /\ loading' = TRUE
    /\ posts' = <<>>
    /\ device' = "mobile"
    /\ activePriorityPosts' = 0
    /\ display' = renderGate(TRUE, <<>>, 0)
    /\ ran' = FALSE
    /\ run' = NoRun
    /\ UNCHANGED <<props, mounted, innerWidth, rightNow>>

\* The run message reaches only listeners of renders whose cleanup never
\* ran.  Each runs the pipeline and calls its setters, which belong to hook
\* state that no longer exists: the results are lost.  On a mounted component
\* (whose last render returned before the hooks) the setters still schedule a
\* render, which now runs the hooks afresh; on an unmounted one they do
\* nothing.
staleRun(loc, width, now) ==
    /\ width = innerWidth /\ now = rightNow
    /\ lastEvent' = "stale"
    /\ pipelineRuns' = listeners
    /\ wasRendered' = (display # <<>>)
    /\ wasHeldBack' = HeldBack
    /\ repeated' = FALSE
    /\ IF mounted
       THEN freshHooks(loc)
       ELSE UNCHANGED <<props, env, hookState, mounted, hooks, listening,
                        listeners, display, ran, run>>

\* A messageHandler without the test of the event name: every message that
\* passes showInfoHub() resets the widget.
MessageAnyEvent(eventName, loc, width, now) ==
    /\ IF mounted THEN TRUE ELSE listeners > 0
    /\ IF listeners = 0 THEN returnsEarly("unheard", width, now)
       ELSE IF ~showInfoHub(canUseDOM, loc) THEN returnsEarly("optout", width, now)
       ELSE IF listening THEN resetInfoHub(loc, width, now)
       ELSE staleRun(loc, width, now)

\* A message with e.data.eventName = eventName is posted to the window while
\* the page is at loc.  Every registered messageHandler runs: nothing when
\* showInfoHub() is false, nothing for another event name, resetInfoHub for
\* the run event.  The handler of the last render acts on the component's
\* state; stale handlers run the pipeline as well (staleRun when they are the
\* only ones).
Message(eventName, loc, width, now) ==
    /\ IF mounted THEN TRUE ELSE listeners > 0
    /\ IF listeners = 0 THEN returnsEarly("unheard", width, now)
       ELSE IF ~showInfoHub(canUseDOM, loc) THEN returnsEarly("optout", width, now)
       ELSE IF eventName # runEventName THEN returnsEarly("ignored", width, now)
       ELSE IF listening THEN resetInfoHub(loc, width, now)
       ELSE staleRun(loc, width, now)

\* The component leaves the tree: the cleanup of the effect of the last
\* render (if that render had one) removes its listener, and the state is
\* discarded.
Unmount ==
    /\ mounted
    /\ mounted' = FALSE
    /\ hooks' = FALSE
    /\ listening' = FALSE
    /\ listeners' = IF listening THEN listeners - 1 ELSE listeners
    /\ pipelineRuns' = 0
    /\ loading' = TRUE
    /\ posts' = <<>>
    /\ device' = "mobile"
    /\ activePriorityPosts' = 0
    /\ display' = <<>>
    /\ lastEvent' = "unmount"
    /\ ran' = FALSE
    /\ wasRendered' = (display # <<>>)
    /\ wasHeldBack' = HeldBack
    /\ repeated' = FALSE
    /\ run' = NoRun
    /\ location' = NoLocation
    /\ innerWidth' = desktopMinWidth - 1
    /\ rightNow' = 1
    /\ UNCHANGED props

\* The host renders the mounted component again (its parent rendered, or
\* its props or the route changed) while the page is at loc.  When
\* showInfoHub() answers as it did at the last render nothing changes: the
\* hooks keep their state and the effect replaces its listener by a new one.
\* When it is now false, the function returns before all of its hooks.  React
\* does not detect a render without any hook: it drops the hook state of the
\* fiber, and with it the effect whose cleanup would have removed the
\* listener; the rules of hooks leave this to the reconciler, so both a kept
\* and a removed listener are allowed for.  When it is now true and was false,
\* the hooks run afresh.
Rerender(loc) ==
    /\ mounted
    /\ IF showInfoHub(canUseDOM, loc) = hooks
       THEN UNCHANGED vars
       ELSE /\ lastEvent' = "rerender"
            /\ pipelineRuns' = 0
            /\ wasRendered' = (display # <<>>)
            /\ wasHeldBack' = HeldBack
            /\ repeated' = FALSE
            /\ IF hooks
               THEN /\ hooks' = FALSE
                    /\ listening' = FALSE
                    /\ \E cleanedUp \in BOOLEAN :
                          listeners' = IF cleanedUp THEN listeners - 1 ELSE listeners
                    /\ location' = loc
                    /\ innerWidth' = desktopMinWidth - 1
                    /\ rightNow' = 1
                    /\ loading' = TRUE
                    /\ posts' = <<>>
                    /\ device' = "mobile"
                    /\ activePriorityPosts' = 0
                    /\ display' = <<>>
                    /\ ran' = FALSE
                    /\ run' = NoRun
                    /\ UNCHANGED <<props, mounted>>
               ELSE freshHooks(loc)

Next ==
    \/ \E loc \in LocationsOf(articles) : Mount(loc)
    \/ \E e \in EventNames, loc \in LocationsOf(articles),
          w \in WidthsOf(articles), t \in Times :
          Message(e, loc, w, t)
    \/ Unmount

Spec == Init /\ [][Next]_vars

\* The widget under a host that also renders it again at any time, followed
\* on two configurations.
HostConfigs ==
    { ScenarioConfig,
      ActivationConfig(<<Plain("P", 0, 1)>>, <<Plain("T", 1, 1)>>) }

InitHost ==
    /\ Init
    /\ \E c \in HostConfigs : articles = c.articles /\ priority = c.priority

NextHost ==
    \/ Next
    \/ \E loc \in LocationsOf(articles) : Rerender(loc)

SpecHost == InitHost /\ [][NextHost]_vars

TypeOK ==
    /\ mounted \in BOOLEAN /\ hooks \in BOOLEAN /\ listening \in BOOLEAN
    /\ loading \in BOOLEAN /\ ran \in BOOLEAN /\ wasRendered \in BOOLEAN
    /\ repeated \in BOOLEAN
    /\ listeners \in 0..MaxListeners /\ pipelineRuns \in 0..MaxListeners
    /\ device \in {"desktop", "mobile"}
    /\ activePriorityPosts \in 0..Len(priority)
    /\ rightNow \in Times /\ innerWidth \in Widths \cup {ScenarioWidth}
    /\ location \in LocationsOf(articles) \cup {NoLocation}

\* ------------------------------------------------------------------- helpers
Min(a, b) == IF a < b THEN a ELSE b

\* A post comes from the pinned list / from topic k (its url names the entry).
IsPinned(post) == post.url[2] = 0
TopicOf(post) == post.url[2]

\* The configured entry a post was copied from.
Origin(post) ==
    IF IsPinned(post) THEN priority[post.url[3]]
    ELSE articles[post.url[2]].posts[post.url[3]]

\* The last operation was a pipeline run that got past the escape hatch.
RunAssembled == lastEvent = "run" /\ run.matched

\* The posts of the last run that passed the activation filter, in
\* concatenation order (pinned list, then the topics as that run ranked them).
ActivePostsOfRun ==
    removeInactivePosts(
        priorityWithArticles(articles, priority, run.sortedFinalTopics), rightNow)

\* The first post of postList titled title.
FirstTitled(postList, title) ==
    postList[CHOOSE i \in 1..Len(postList) :
                /\ postList[i].editorItemTitle = title
                /\ \A j \in 1..(i - 1) : postList[j].editorItemTitle # title]

\* No keyword of any topic occurs in the lower-cased path + query of loc.
NoKeywordMatches(loc) ==
    \A i \in 1..Len(articles) : \A k \in 1..Len(articles[i].keywords) :
        ~includes(toLowerCase(loc.pathname \o searchString(loc)),
                  toLowerCase(articles[i].keywords[k]))

\* The cap for a viewport width.
CapOf(width) ==
    IF width >= desktopMinWidth THEN maximumDesktopPosts ELSE maximumMobilePosts

\* -------------------------------------------------------------------- claims

\* C1: after a run, for matched topics A, B with topicType(A) < topicType(B),
\* every post of A in the final sequence precedes every post of B.
\* (Refuted: with a sort that treats the boolean comparator's 0/1 as
\* "not less", the topics stay in configuration order.)
C1_PriorityOrdering ==
    RunAssembled =>
        \A i \in 1..Len(posts) : \A j \in 1..Len(posts) :
            ( /\ ~IsPinned(posts[i]) /\ ~IsPinned(posts[j])
              /\ articles[TopicOf(posts[i])].topicType
                     < articles[TopicOf(posts[j])].topicType )
            => i < j

\* C2: for every title, the post kept is the first occurrence in
\* concatenation order, with that occurrence's url and image.
\* (Refuted: the Map keeps the first occurrence's place and the last
\* occurrence's value.)
C2_FirstSeenWins ==
    RunAssembled =>
        \A i \in 1..Len(run.uniquePosts) :
            LET kept == run.uniquePosts[i]
                first == FirstTitled(ActivePostsOfRun, kept.editorItemTitle)
            IN  kept.url = first.url /\ kept.image = first.image

\* C3: a post configured with active = false is never on screen, whatever its
\* startDate.  (Refuted: a parseable startDate that is not in the future
\* sets the copy's active flag to true.)
C3_InactiveNeverShown ==
    \A i \in 1..Len(display) : Origin(display[i]).active

C5_GateBeforeTruncation ==
    (RunAssembled /\ Len(run.uniquePosts) > 0) =>
        LET n == Len(run.uniquePosts)
        IN  IF n # activePriorityPosts
            THEN display = SubSeq(run.uniquePosts, 1, Min(n, CapOf(innerWidth)))
            ELSE display = <<>>

\* C6: activePriorityPosts equals the number of pinned posts that are active
\* and not scheduled for a future startDate at the time of the run.
\* (Refuted: the count looks at the configured active flag only.)
C6_CountIsSurvivors ==
    RunAssembled =>
        activePriorityPosts =
            Cardinality({i \in 1..Len(priority) :
                            priority[i].active /\ ~StartsInFuture(priority[i], rightNow)})

\* C7: in the final sequence every pinned post precedes every topic post,
\* and the pinned posts keep their PriorityPostList order.
\* (Refuted through C2: a topic post takes the place of the pinned post
\* whose title it shares.)
C7_PinnedFirst ==
    RunAssembled =>
        \A i \in 1..Len(posts) : \A j \in 1..Len(posts) :
            i < j =>
                /\ IsPinned(posts[j]) => IsPinned(posts[i])
                /\ (IsPinned(posts[i]) /\ IsPinned(posts[j]))
                       => posts[i].url[3] < posts[j].url[3]

\* C8, first part: the posts state is the first min(n, cap) posts of the
\* assembled sequence, cap by the width read in the run, hence at most cap.
C8_PrefixWithinCap ==
    RunAssembled =>
        LET n == Len(run.uniquePosts)
            m == Min(n, CapOf(innerWidth))
        IN  posts = SubSeq(run.uniquePosts, 1, m) /\ Len(posts) <= CapOf(innerWidth)

\* C8: C8_PrefixWithinCap, and truncation never drops a pinned post while
\* keeping a non-pinned one.  (Refuted through C2: the kept first entry can
\* be a topic post, the dropped tail a pinned one.)
C8_TruncationCap ==
    RunAssembled =>
        LET n == Len(run.uniquePosts)
            m == Min(n, CapOf(innerWidth))
        IN  /\ posts = SubSeq(run.uniquePosts, 1, m)
            /\ Len(posts) <= CapOf(innerWidth)
            /\ ~ ( /\ \E i \in (m + 1)..n : IsPinned(run.uniquePosts[i])
                   /\ \E j \in 1..m : ~IsPinned(run.uniquePosts[j]) )

\* C9: after a run in which no keyword matches the URL, nothing is displayed
\* and posts is empty.
C9_NoMatchNoRender ==
    (lastEvent = "run" /\ NoKeywordMatches(location)) =>
        (posts = <<>> /\ display = <<>>)

\* A no-match run, with an active pinned post, right after a rendered panel.
C9_Witness ==
    /\ lastEvent = "run" /\ NoKeywordMatches(location)
    /\ wasRendered
    /\ Len(removeInactivePosts(priority, rightNow)) > 0
    /\ posts = <<>> /\ display = <<>>

\* C10: after a mount or a handled message with ih=0 in the query, nothing is
\* displayed.  (Refuted: the handler returns without touching the state, so
\* a panel on screen stays.)
C10_OptOutHides ==
    ( \/ lastEvent = "optout"
      \/ (lastEvent = "mount" /\ canUseDOM /\ ~showInfoHub(canUseDOM, location)) )
    => display = <<>>

\* C11: handling a message whose eventName is not "ebs-infohub-run" runs no
\* pipeline and leaves loading, posts, the device and the pinned-post count as
\* they were (and with them the rendered output and the record of the last run).
\* (A step is such a message when it is one for some page and for the width
\* and time found after it.)
C11_OtherEventChangesNothing ==
    [][(\E loc \in LocationsOf(articles) :
            Message("other-event", loc, innerWidth', rightNow'))
       => UNCHANGED <<hookState, display, ran, run>>]_vars

\* A message with another event name was handled while posts were rendered.
C11_Witness ==
    /\ lastEvent = "ignored"
    /\ ran
    /\ display # <<>>

\* Position of x in the sequence xs of distinct elements.
IndexIn(xs, x) == CHOOSE k \in 1..Len(xs) : xs[k] = x

PassedFilter(post) ==
    \E k \in 1..Len(run.activePosts) : run.activePosts[k].url = post.url

\* C13: of the posts a run collects, one whose active flag is set passes the
\* activation filter exactly when its startDate does not parse to an instant
\* after the evaluation time (absent, malformed, past and exactly-now pass;
\* a later start excludes it).
C13_ActivePassesUnlessFuture ==
    run.matched =>
        \A i \in 1..Len(run.priorityWithArticles) :
            LET post == run.priorityWithArticles[i]
            IN  post.active => (PassedFilter(post) <=> ~StartsInFuture(post, rightNow))

\* A run kept an active post whose startDate is the evaluation time itself.
C13_Witness ==
    /\ lastEvent = "run"
    /\ run.matched
    /\ \E i \in 1..Len(run.priorityWithArticles) :
          LET post == run.priorityWithArticles[i]
          IN  /\ post.active
              /\ DateParse(post.startDate) = [valid |-> TRUE, ms |-> rightNow]
              /\ PassedFilter(post)

\* post is among the posts the next run collects / keeps.
CollectedNext(post) ==
    \E k \in 1..Len(run'.priorityWithArticles) :
        run'.priorityWithArticles[k].url = post.url
PassedFilterNext(post) ==
    \E k \in 1..Len(run'.activePosts) : run'.activePosts[k].url = post.url

\* C14: no step changes the author configuration (articles, priority, and
\* with them every active flag), and a post that the last run held back only
\* because its startDate was after the evaluation time is kept by a later run
\* that collects it at or after that startDate.
C14_ConfigurationUntouched ==
    [][/\ articles' = articles
       /\ priority' = priority
       /\ (run.matched /\ lastEvent' = "run" /\ run'.matched) =>
             \A i \in 1..Len(run.priorityWithArticles) :
                 LET post == run.priorityWithArticles[i]
                 IN  (/\ post.active
                      /\ StartsInFuture(post, rightNow)
                      /\ ~StartsInFuture(post, rightNow')
                      /\ CollectedNext(post))
                     => PassedFilterNext(post)]_vars

\* A run kept a post that the run before it had held back for its startDate.
C14_Witness ==
    /\ lastEvent = "run"
    /\ run.matched
    /\ \E i \in 1..Len(run.priorityWithArticles) :
          /\ run.priorityWithArticles[i].url \in wasHeldBack
          /\ PassedFilter(run.priorityWithArticles[i])

\* C15: the trigger is idempotent: a run that directly follows a run with
\* the same configuration, URL, viewport width and time leaves the loading
\* flag, the posts (order and content) and the rendered output as that run
\* left them, however often it is repeated.
C15_TriggerIdempotent ==
    [][(lastEvent = "run" /\ lastEvent' = "run" /\ env' = env)
       => (loading' = loading /\ posts' = posts /\ display' = display)]_vars

\* The trigger was handled twice in a row with the same inputs, and posts
\* are on screen after both.
C15_Witness ==
    /\ repeated
    /\ lastEvent = "run"
    /\ wasRendered
    /\ display # <<>>
    /\ Len(posts) > 1

\* Some keyword of topic i, lower-cased, occurs in the lower-cased pathname +
\* search of loc.
TopicMatches(i, loc) ==
    \E k \in 1..Len(articles[i].keywords) :
        includes(toLowerCase(loc.pathname \o searchString(loc)),
                 toLowerCase(articles[i].keywords[k]))

\* The topics the matcher of the last run returned.
MatchedTopics ==
    IF run.matched
    THEN {run.finalTopics[k] : k \in 1..Len(run.finalTopics)}
    ELSE {}

\* C16: the matcher of a run returns topic i exactly when a keyword of topic
\* i, lower-cased, is a substring of the lower-cased path + query of the
\* location; host and protocol play no part, and the keyword may sit inside a
\* longer word.
C16_MatcherIsSubstringOfPathAndQuery ==
    (lastEvent = "run" /\ run.searched) =>
        \A i \in 1..Len(articles) : i \in MatchedTopics <=> TopicMatches(i, location)

\* A run matched the second topic through an upper-case query value, and not
\* the first, whose keyword occurs in the host name only.
C16_Witness ==
    /\ lastEvent = "run"
    /\ run.searched
    /\ Len(articles) >= 2
    /\ location.search # <<>>
    /\ MatchedTopics = {2}
    /\ \E k \in 1..Len(articles[1].keywords) :
          includes(toLowerCase(location.host), toLowerCase(articles[1].keywords[k]))

\* C17: without a browser context (canUseDOM false) the component returns
\* the empty fragment before any hook: it reads neither the location nor the
\* viewport, registers no listener, runs no pipeline, holds no posts and shows
\* nothing.
C17_NoDOMNothingHappens ==
    ~canUseDOM =>
        /\ ~hooks
        /\ ~listening
        /\ location = NoLocation
        /\ innerWidth = desktopMinWidth - 1
        /\ ~ran
        /\ run = NoRun
        /\ loading
        /\ posts = <<>>
        /\ display = <<>>

\* The component was mounted without a browser context.
C17_Witness ==
    /\ ~canUseDOM
    /\ mounted
    /\ lastEvent = "mount"

\* The number of posts of postList titled title.
TitleCount(postList, title) ==
    Cardinality({i \in 1..Len(postList) : postList[i].editorItemTitle = title})

\* C18: in every state posts holds no two posts of the same title, and every
\* title that passed the activation filter of the last run occurs exactly
\* once in the deduplicated array (before truncation).
C18_TitlesUnique ==
    /\ \A i \in 1..Len(posts) : TitleCount(posts, posts[i].editorItemTitle) = 1
    /\ run.matched =>
          \A k \in 1..Len(run.activePosts) :
              TitleCount(run.uniquePosts, run.activePosts[k].editorItemTitle) = 1

\* A run whose active posts shared a title left posts on screen.
C18_Witness ==
    /\ lastEvent = "run"
    /\ run.matched
    /\ \E k \in 1..Len(run.activePosts) :
          TitleCount(run.activePosts, run.activePosts[k].editorItemTitle) > 1
    /\ display # <<>>

\* C19: deduplication is idempotent: removeDuplicatePosts applied to the
\* array it produced in a run returns that array, same order, same posts.
C19_DedupIdempotent ==
    run.matched => removeDuplicatePosts(run.uniquePosts) = run.uniquePosts

\* A run deduplicated an array in which one title occurred three times among
\* other titles.
C19_Witness ==
    /\ lastEvent = "run"
    /\ run.matched
    /\ Len(run.uniquePosts) >= 2
    /\ \E k \in 1..Len(run.activePosts) :
          TitleCount(run.activePosts, run.activePosts[k].editorItemTitle) >= 3

\* C20: every post of the posts state (and so of the rendered output) is a
\* pinned post or a post of a topic with a keyword in the URL of the run;
\* and with the saddle (topicType 0) and gravel (topicType 2) topics, no pinned
\* post, the URL "/products/b17-saddle?x=1" and a viewport of 1200 pixels, a
\* run yields exactly the post of the saddle topic, on screen.
C20_OnlyPinnedOrMatched ==
    /\ \A i \in 1..Len(posts) :
          IsPinned(posts[i]) \/ TopicMatches(TopicOf(posts[i]), location)
    /\ \A i \in 1..Len(display) :
          IsPinned(display[i]) \/ TopicMatches(TopicOf(display[i]), location)
    /\ (/\ articles = ScenarioConfig.articles
        /\ priority = ScenarioConfig.priority
        /\ lastEvent = "run"
        /\ canUseDOM
        /\ location = ScenarioLocation
        /\ innerWidth = ScenarioWidth)
       => (/\ posts = <<Plain("B17", 1, 1)>>
           /\ display = posts)

\* The scenario: the run on the saddle product page shows the saddle post.
C20_Witness ==
    /\ articles = ScenarioConfig.articles
    /\ priority = <<>>
    /\ lastEvent = "run"
    /\ location = ScenarioLocation
    /\ innerWidth = 1200
    /\ MatchedTopics = {1}
    /\ Len(display) = 1
    /\ display[1].editorItemTitle = "B17"

\* C21: pinned posts are never rendered alone: when a run leaves the panel on
\* screen, a post of a matched topic passed the activation filter of that run
\* (whether pinned posts share a title, are scheduled or are inactive).
C21_NeverPinnedAlone ==
    (lastEvent = "run" /\ display # <<>>) =>
        \E k \in 1..Len(run.activePosts) : ~IsPinned(run.activePosts[k])

\* C22: the opt-out is not latched at mount: whenever the run message is
\* posted to the page of a mounted widget (in a browser) while ih=0 is absent
\* from the URL, the pipeline runs and the widget leaves the loading state,
\* also when the widget was mounted while ih=0 was present.
C22_OptOutNotLatched ==
    [][(/\ mounted
        /\ canUseDOM
        /\ \E loc \in LocationsOf(articles) :
              /\ showInfoHub(canUseDOM, loc)
              /\ Message(runEventName, loc, innerWidth', rightNow'))
       => (lastEvent' = "run" /\ pipelineRuns' >= 1 /\ ~loading')]_vars

\* C23: in a browser without the opt-out, every run message the component's
\* handler acts on ends with loading false, whether or not a keyword matched;
\* loading is true only as long as no run has completed since the hooks were
\* set up.
C23_TriggerEndsLoading ==
    /\ lastEvent = "run" => (canUseDOM /\ ~loading)
    /\ ran => ~loading
    /\ (hooks /\ loading) => (~ran /\ posts = <<>> /\ display = <<>>)

\* A run on the escape hatch, after a run that had rendered the panel, left
\* loading false.
C23_Witness ==
    /\ lastEvent = "run"
    /\ run.searched
    /\ ~run.matched
    /\ wasRendered
    /\ ~loading

\* C24: at most one "message" listener of the widget is registered at any
\* time, none while the widget is unmounted, and a run message causes exactly
\* one pipeline run.
C24_OneListener ==
    /\ listeners <= 1
    /\ ~mounted => listeners = 0
    /\ lastEvent \in {"run", "stale"} => pipelineRuns = 1

====
